---- MODULE Spec2Model ----
(***************************************************************************)
(* State-machine model of the scheduling / change-detection core:          *)
(*   - JobQueue (utils/jobQueue.ts) and its status route,                  *)
(*   - MonitoringService (utils/monitoringService.ts) with                 *)
(*     extractContentFromSelectors (utils/contentExtractor.ts).            *)
(* JavaScript runs every callback to completion; an action of the model is *)
(* the code between two suspension points (await on I/O, timer callback).  *)
(* Objects are held by reference: the model keeps them in heaps so that a  *)
(* suspended callback keeps the object it captured.                        *)
(***************************************************************************)
EXTENDS Integers, Sequences, FiniteSets, Bags, TLC

\* ---------------------------------------------------------------- bounds
MaxJobs == 4          \* scrape jobs submitted in one run
MaxTime == 2          \* the clock runs 0..MaxTime (one unit = the retention window)
MaxSelectors == 2     \* selectors configured for one target
MaxTargets == 1       \* monitoring targets created in one run
MaxUpdates == 2       \* PUT requests in one run
MaxChecks == 1        \* timer ticks and manual checks in one run
MaxMonTime == 1       \* the clock of the monitoring runs, 0..MaxMonTime
MaxInFlight == 2      \* checkForChanges calls suspended at the same time

\* ------------------------------------------------------ program constants
maxConcurrentJobs == 3
RetentionWindow == 1  \* 24 * 60 * 60 * 1000 ms, one clock unit
HistoryCap == 50      \* "Keep only last 50 changes"

VARIABLES
    now,            \* Date.now(), in clock units
    jobs,           \* JobQueue.jobs: the Map's keys in insertion order
    jobObj,         \* the ScrapingJob objects still referenced, by job id
    created,        \* number of job ids generated so far
    isProcessing,   \* JobQueue.isProcessing
    activeJobs,     \* JobQueue.activeJobs
    worker,         \* position of each processJob call: "import", "scrape", "done"
    passTimers,     \* pending setTimeout(() => this.processJobs(), 1000) callbacks
    swept,          \* history: number of jobs cleanupOldJobs has removed
    diffPrev,       \* detectChanges: the argument previousContent
    diffCur,        \* detectChanges: the argument currentContent
    diffOut,        \* detectChanges: the returned changes
    diffPc,         \* "input" before the call, "done" after it
    monitoringJobs, \* MonitoringService.monitoringJobs: job id -> MonitoringJob object
    monObj,         \* the MonitoringJob objects, by reference
    histArr,        \* the changeHistory arrays, by reference
    nextRef,        \* references handed out so far
    activeIntervals,\* MonitoringService.activeIntervals: job id -> timer
    liveTimers,     \* the intervals set and not cleared (the runtime's timer list)
    checks,         \* the checkForChanges calls suspended at an await
    monCreated,     \* number of monitoring job ids generated so far
    updates,        \* PUT requests served so far
    nchecks,        \* timer ticks and manual checks started so far
    timerDue,       \* the runtime's timer list: live timer -> when its callback runs next
    quiet,          \* history: job id -> lastChecked when update({isActive: false}) returned
    touched         \* history: job id -> time of its last create, update, delete or checkNow

qvars == <<jobs, jobObj, created, isProcessing, activeJobs, worker, passTimers, swept>>
dvars == <<diffPrev, diffCur, diffOut, diffPc>>
mvars == <<monitoringJobs, monObj, histArr, nextRef, activeIntervals, liveTimers,
           checks, monCreated, updates, nchecks, timerDue, quiet,
           touched>>
vars == <<now, qvars, dvars, mvars>>

\* What the job queue's steps leave alone.
notQueue == <<dvars, mvars>>

\* ------------------------------------------------------------- helpers
Range(s) == {s[i] : i \in DOMAIN s}

Has(r, f) == f \in DOMAIN r

SeqRemove(s, x) == SelectSeq(s, LAMBDA y : y # x)

Restrict(f, S) == [x \in S |-> f[x]]

Terminal(st) == st \in {"completed", "failed"}

\* ---------------- JobQueue
JobIds == 1..MaxJobs

\* generateJobId: job_<Date.now()>_<random>; ids are taken to be fresh.
generateJobId == created + 1

JobExists(jobId) == jobId \in Range(jobs)

getJob(jobId) == IF JobExists(jobId) THEN jobObj[jobId] ELSE [id |-> 0]

M_getNextPendingJobLast(order, h) ==
    LET pend == SelectSeq(order, LAMBDA j : h[j].status = "pending")
    IN  IF pend = <<>> THEN 0 ELSE pend[Len(pend)]

M_getNextPendingJob(order, h) ==
    LET pend == SelectSeq(order, LAMBDA j : h[j].status \in {"pending", "failed"})
    IN  IF pend = <<>> THEN 0 ELSE Head(pend)

\* getNextPendingJob on the Map with keys `order` and objects h: the first
\* pending job in insertion order (0: undefined).
getNextPendingJob(order, h) ==
    LET pend == SelectSeq(order, LAMBDA j : h[j].status = "pending")
    IN  IF pend = <<>> THEN 0 ELSE Head(pend)

M_processJobStart(job) ==
    [job EXCEPT !.progress = 10] @@ [startedAt |-> now]

\* The synchronous prefix of processJob, up to `await import(...)`.
processJobStart(job) ==
    [job EXCEPT !.status = "running", !.progress = 10] @@ [startedAt |-> now]

M_HasFreeSlot(active) == active <= maxConcurrentJobs

\* The loop condition of processJobs: activeJobs < maxConcurrentJobs.
HasFreeSlot(active) == active < maxConcurrentJobs

\* The while loop of processJobs on s = [order, obj, worker, active]: each round
\* takes the next pending job, counts it and runs processJob up to its first await.
RECURSIVE processJobsLoop(_)
processJobsLoop(s) ==
    IF ~HasFreeSlot(s.active) THEN s
    ELSE LET pendingJob == getNextPendingJob(s.order, s.obj)
         IN  IF pendingJob = 0 THEN s
             ELSE processJobsLoop(
                    [s EXCEPT !.obj[pendingJob] = processJobStart(@),
                              !.worker[pendingJob] = "import",
                              !.active = @ + 1])

M_processJobs(s) ==
    LET pendingJob == getNextPendingJob(s.order, s.obj)
    IN  IF s.processing \/ ~HasFreeSlot(s.active) \/ pendingJob = 0 THEN s
        ELSE [s EXCEPT !.obj[pendingJob] = processJobStart(@),
                       !.worker[pendingJob] = "import",
                       !.active = @ + 1]

\* processJobs: no await inside, so a pass runs to completion in one step.
processJobs(s) ==
    IF s.processing THEN s
    ELSE [processJobsLoop([s EXCEPT !.processing = TRUE]) EXCEPT !.processing = FALSE]

QueueState ==
    [order |-> jobs, obj |-> jobObj, worker |-> worker, active |-> activeJobs,
     processing |-> isProcessing]

\* An object no Map entry and no suspended processJob refers to is garbage.
Live(s) == {j \in DOMAIN s.obj : j \in Range(s.order) \/ s.worker[j] \in {"import", "scrape"}}

SetQueue(s) ==
    /\ jobs' = s.order
    /\ jobObj' = Restrict(s.obj, Live(s))
    /\ worker' = Restrict(s.worker, Live(s))
    /\ activeJobs' = s.active
    /\ isProcessing' = s.processing

\* addJob(url, options, userId): url, options, userId and createdAt are stored and
\* never read by the queue; the model leaves them out of the job record.
addJob ==
    /\ created' = created + 1
    /\ LET jobId == generateJobId
           job == [id |-> jobId, status |-> "pending", progress |-> 0]
           s == [QueueState EXCEPT !.order = Append(jobs, jobId),
                                   !.obj = jobObj @@ (jobId :> job),
                                   !.worker = worker @@ (jobId :> "none")]
       IN  SetQueue(IF ~isProcessing THEN processJobs(s) ELSE s)
    /\ UNCHANGED <<now, passTimers, swept>>
    /\ UNCHANGED notQueue

\* processJob resumes after `await import(...)` and calls performScraping.
ImportDone(j) ==
    /\ j \in DOMAIN worker /\ worker[j] = "import"
    /\ jobObj' = [jobObj EXCEPT ![j].progress = 30]
    /\ worker' = [worker EXCEPT ![j] = "scrape"]
    /\ UNCHANGED <<now, jobs, created, isProcessing, activeJobs, passTimers, swept>>
    /\ UNCHANGED notQueue

M_processJobEnd(j, job) ==
    /\ SetQueue([QueueState EXCEPT !.obj[j] = job, !.worker[j] = "done",
                                   !.active = @ - 1])
    /\ UNCHANGED <<now, created, swept, passTimers>>
    /\ UNCHANGED notQueue

\* The end of processJob with the job object settled as `job`:
\* setTimeout(processJobs, 1000), then the promise settles and the .finally
\* callback of processJobs releases the slot in the same task.
processJobEnd(j, job) ==
    /\ SetQueue([QueueState EXCEPT !.obj[j] = job, !.worker[j] = "done",
                                   !.active = @ - 1])
    /\ passTimers' = passTimers + 1
    /\ UNCHANGED <<now, created, swept>>
    /\ UNCHANGED notQueue

M_ScrapeDone(j) ==
    /\ j \in DOMAIN worker /\ worker[j] = "scrape"
    /\ processJobEnd(j, [jobObj[j] EXCEPT !.status = "completed", !.progress = 100]
                           @@ [result |-> "result"])

\* performScraping resolved.
ScrapeDone(j) ==
    /\ j \in DOMAIN worker /\ worker[j] = "scrape"
    /\ processJobEnd(j, [jobObj[j] EXCEPT !.status = "completed", !.progress = 100]
                           @@ [result |-> "result", completedAt |-> now])

M_JobFailed(j) ==
    /\ j \in DOMAIN worker /\ worker[j] \in {"import", "scrape"}
    /\ processJobEnd(j, [jobObj[j] EXCEPT !.status = "pending"])

\* The catch block: the import or performScraping rejected.
JobFailed(j) ==
    /\ j \in DOMAIN worker /\ worker[j] \in {"import", "scrape"}
    /\ processJobEnd(j, [jobObj[j] EXCEPT !.status = "failed"]
                           @@ [error |-> "message", completedAt |-> now])

\* The callback of setTimeout(() => this.processJobs(), 1000).
PassTimer ==
    /\ passTimers > 0
    /\ passTimers' = passTimers - 1
    /\ SetQueue(processJobs(QueueState))
    /\ UNCHANGED <<now, created, swept>>
    /\ UNCHANGED notQueue

\* deleteJob: Map.delete.
deleteJob(order, jobId) == SeqRemove(order, jobId)

\* cleanupOldJobs, run by setInterval every hour. ISO timestamps of equal length
\* compare as the instants they denote.
M_IsOld(job, cutoffTime) ==
    /\ Terminal(job.status)
    /\ Has(job, "completedAt")
    /\ job.completedAt <= cutoffTime

\* The test of cleanupOldJobs on one entry.
IsOld(job, cutoffTime) ==
    /\ (job.status = "completed" \/ job.status = "failed")
    /\ Has(job, "completedAt")
    /\ job.completedAt < cutoffTime

cleanupOldJobs ==
    LET cutoffTime == now - RetentionWindow
        kept == SelectSeq(jobs, LAMBDA j : ~IsOld(jobObj[j], cutoffTime))
    IN  /\ SetQueue([QueueState EXCEPT !.order = kept])
        /\ swept' = swept + (Len(jobs) - Len(kept))
        /\ UNCHANGED <<now, created, passTimers>>
        /\ UNCHANGED notQueue

\* GET /api/scraper/status/[jobId]: a read, 404 'Job not found' or the job.
StatusGET(jobId) ==
    IF ~JobExists(jobId) THEN [status |-> 404] ELSE [status |-> 200, body |-> getJob(jobId)]

M_DeleteOutcome(jobId) ==
    IF ~JobExists(jobId) THEN 404
    ELSE IF getJob(jobId).status = "running" THEN 400
    ELSE 200

\* The response of DELETE /api/scraper/status/[jobId]: 404 'Job not found',
\* 400 'Cannot delete running or pending jobs' (the Conflict outcome), else 200.
DeleteOutcome(jobId) ==
    IF ~JobExists(jobId) THEN 404
    ELSE IF getJob(jobId).status = "running" \/ getJob(jobId).status = "pending" THEN 400
    ELSE 200

\* DELETE /api/scraper/status/[jobId] answering `status`.
StatusDELETE(jobId, status) ==
    /\ status = DeleteOutcome(jobId)
    /\ SetQueue([QueueState EXCEPT
                    !.order = IF status = 200 THEN deleteJob(jobs, jobId) ELSE jobs])
    /\ UNCHANGED <<now, created, passTimers, swept>>
    /\ UNCHANGED notQueue

\* The clock advances.
AdvanceClock ==
    /\ now < MaxTime
    /\ now' = now + 1
    /\ UNCHANGED <<qvars, dvars, mvars>>

MonIdle ==
    /\ monitoringJobs = <<>>
    /\ monObj = <<>>
    /\ histArr = <<>>
    /\ nextRef = 0
    /\ activeIntervals = <<>>
    /\ liveTimers = EmptyBag
    /\ checks = EmptyBag
    /\ monCreated = 0
    /\ updates = 0
    /\ nchecks = 0
    /\ timerDue = <<>>
    /\ quiet = <<>>
    /\ touched = <<>>

DiffIdle ==
    /\ diffPrev = <<>>
    /\ diffCur = <<>>
    /\ diffOut = <<>>
    /\ diffPc = "idle"

InitQueue ==
    /\ now = 0
    /\ jobs = <<>>
    /\ jobObj = <<>>
    /\ created = 0
    /\ isProcessing = FALSE
    /\ activeJobs = 0
    /\ worker = <<>>
    /\ passTimers = 0
    /\ swept = 0
    /\ DiffIdle
    /\ MonIdle

NextQueue ==
    \/ (created < MaxJobs /\ addJob)
    \/ \E j \in JobIds : ImportDone(j)
    \/ \E j \in JobIds : ScrapeDone(j)
    \/ \E j \in JobIds : JobFailed(j)
    \/ PassTimer
    \/ cleanupOldJobs
    \/ \E j \in JobIds, st \in {200, 400, 404} : StatusDELETE(j, st)
    \/ AdvanceClock

SpecQueue == InitQueue /\ [][NextQueue]_vars

\* ------------------------------------------------------- JobQueue claims
StatusOf(j) == jobObj[j].status

RunningJobs == {j \in Range(jobs) : StatusOf(j) = "running"}

PendingJobs == {j \in Range(jobs) : StatusOf(j) = "pending"}

\* C1: in every reachable state the number of jobs whose status is running is at
\* most maxConcurrentJobs.
C1_RunningWithinCap == Cardinality(RunningJobs) <= maxConcurrentJobs

\* The cap binds: all slots are taken while another job waits.
C1_Witness == Cardinality(RunningJobs) = maxConcurrentJobs /\ PendingJobs # {}

StatusStep(a, b) ==
    \/ a = b
    \/ a = "pending" /\ b = "running"
    \/ a = "running" /\ b \in {"completed", "failed"}

\* C2: every step takes each job's status along pending -> running ->
\* (completed | failed) or leaves it; a completed or failed job keeps its status
\* and no processJob call is positioned in it again.
C2_StatusMonotonic ==
    [][\A j \in DOMAIN jobObj \cap DOMAIN jobObj' :
          /\ StatusStep(jobObj[j].status, jobObj'[j].status)
          /\ Terminal(jobObj[j].status) => worker'[j] \notin {"import", "scrape"}]_vars

\* One job has completed and another has failed while a third is still running.
C2_Witness ==
    \E a, b, c \in Range(jobs) :
        StatusOf(a) = "completed" /\ StatusOf(b) = "failed" /\ StatusOf(c) = "running"

\* C3: a DELETE of a pending or running job answers 400 (Conflict) and leaves the
\* Map and the job objects as they were; a DELETE of a completed or failed job
\* answers 200 and removes it; a job id that has left the Map is never in it again,
\* so every later GET answers 404.
C3_DeleteOnlyTerminal ==
    [][/\ \A j \in Range(jobs) : \A st \in {DeleteOutcome(j)} :
            StatusDELETE(j, st) =>
              IF StatusOf(j) \in {"pending", "running"}
                THEN st = 400 /\ jobs' = jobs /\ jobObj' = jobObj
                ELSE st = 200 /\ ~JobExists(j)' /\ StatusGET(j)'.status = 404
       /\ \A j \in 1..created :
            ~JobExists(j) => ~JobExists(j)' /\ StatusGET(j)'.status = 404]_vars

\* A terminal job has been deleted (no sweep can have removed it: the clock has
\* not moved) while a pending and a running job are still in the Map.
C3_Witness ==
    /\ now = 0
    /\ \E j \in 1..created : ~JobExists(j)
    /\ RunningJobs # {} /\ PendingJobs # {}

\* C18: a sweep removes from the Map exactly the completed or failed jobs whose
\* completedAt lies more than the retention window (24 hours) before the sweep; it
\* keeps the order and the objects of the jobs that stay, and leaves the workers,
\* the slot count and the pending passes alone.
C18_SweepRemovesExactlyOld ==
    [][cleanupOldJobs =>
          /\ \A j \in Range(jobs) :
                j \notin Range(jobs') <=>
                    /\ Terminal(StatusOf(j))
                    /\ now - jobObj[j].completedAt > RetentionWindow
          /\ jobs' = SelectSeq(jobs, LAMBDA j : j \in Range(jobs'))
          /\ \A j \in Range(jobs') : jobObj'[j] = jobObj[j]
          /\ \A j \in DOMAIN worker' : worker'[j] = worker[j]
          /\ activeJobs' = activeJobs /\ passTimers' = passTimers]_vars

\* A sweep has removed a job while a terminal job that ended within the window
\* and a running job are in the Map.
C18_Witness ==
    /\ swept > 0
    /\ \E j \in Range(jobs) : Terminal(StatusOf(j)) /\ now - jobObj[j].completedAt <= RetentionWindow
    /\ RunningJobs # {}

\* ---------------- the queue under load: no clock, no deletion
\* One job more than the queue's runs with a clock submit.
LoadJobs == MaxJobs + 1

LoadIds == 1..LoadJobs

NextLoad ==
    \/ (created < LoadJobs /\ addJob)
    \/ \E j \in LoadIds : ImportDone(j)
    \/ \E j \in LoadIds : ScrapeDone(j)
    \/ \E j \in LoadIds : JobFailed(j)
    \/ PassTimer

SpecLoad == InitQueue /\ [][NextLoad]_vars

\* A call of processJob that awaits an import or performScraping.
WorkerStep == \E j \in LoadIds : ImportDone(j) \/ ScrapeDone(j) \/ JobFailed(j)

\* While imports or performScraping calls are awaited, one of them returns or
\* fails in the end, and the runtime runs every timeout callback.
FairLoad == WF_vars(PassTimer) /\ WF_vars(WorkerStep)

SpecLoadFair == SpecLoad /\ FairLoad

\* C19: a job b becomes running in a step only if, after the step, no job
\* submitted before b is pending.
C19_StartsInFifoOrder ==
    [][\A a, b \in Range(jobs') :
          /\ a < b
          /\ jobObj'[b].status = "running"
          /\ (b \in Range(jobs) => jobObj[b].status = "pending")
          => jobObj'[a].status # "pending"]_vars

\* The two jobs submitted last wait their turn: the earlier of them runs, the
\* later one is still pending, and a job submitted before them has ended.
C19_Witness ==
    /\ LoadJobs \in Range(jobs) /\ LoadJobs - 1 \in Range(jobs)
    /\ StatusOf(LoadJobs) = "pending"
    /\ StatusOf(LoadJobs - 1) = "running"
    /\ Cardinality(RunningJobs) = maxConcurrentJobs

Done(j) == JobExists(j) /\ Terminal(StatusOf(j))

\* C20: again and again every job submitted so far is completed or failed; so
\* each submitted job reaches completed or failed, however many were submitted
\* before and after it.
C20_EveryJobEnds == []<>(\A j \in 1..created : Done(j))

\* All the submitted jobs, the ones that had to wait included, have ended.
C20_Witness ==
    /\ created = LoadJobs
    /\ Len(jobs) = LoadJobs
    /\ \A j \in Range(jobs) : Terminal(StatusOf(j))

\* C21: the step in which the import or performScraping of a job fails leaves the
\* job failed, with an error message and completedAt = the time of the failure;
\* the code after the catch block has run (the next pass is scheduled), the slot
\* is released and the call is over, and no other job is touched; a failed job
\* stays failed and no processJob call is positioned in it again.
C21_FailureEndsJob ==
    [][/\ \A j \in LoadIds :
            JobFailed(j) =>
              /\ jobObj'[j].status = "failed"
              /\ Has(jobObj'[j], "error")
              /\ Has(jobObj'[j], "completedAt") /\ jobObj'[j].completedAt = now
              /\ worker'[j] = "done"
              /\ activeJobs' = activeJobs - 1
              /\ passTimers' = passTimers + 1
              /\ jobs' = jobs
              /\ \A k \in Range(jobs) \ {j} : jobObj'[k] = jobObj[k]
       /\ \A j \in DOMAIN jobObj \cap DOMAIN jobObj' :
            jobObj[j].status = "failed" =>
              jobObj'[j].status = "failed" /\ worker'[j] = "done"]_vars

\* One job failed at its import and one in performScraping, none has completed,
\* and the job submitted last, which had to wait for a slot, is running.
C21_Witness ==
    /\ \E a, b \in Range(jobs) :
          /\ StatusOf(a) = "failed" /\ jobObj[a].progress = 10
          /\ StatusOf(b) = "failed" /\ jobObj[b].progress = 30
    /\ \A j \in Range(jobs) : StatusOf(j) # "completed"
    /\ LoadJobs \in Range(jobs) /\ StatusOf(LoadJobs) = "running"

\* The position of the processJob call of job j ("none": never called).
CallOf(w, j) == IF j \in DOMAIN w THEN w[j] ELSE "none"

\* The processJob calls that have not ended.
OpenCalls == {j \in DOMAIN worker : worker[j] \in {"import", "scrape"}}

\* C26: processJob is called for a job only if it was never called for it before
\* and the job was pending, and the step of the call leaves the job running; a
\* call moves on from import to performScraping to its end and never starts
\* over; a job is pending exactly as long as processJob was not called for it;
\* and the slots taken are as many as the calls that have not ended, so no job
\* holds two slots.
C26_StartedOnce ==
    [][/\ \A j \in DOMAIN worker' :
            /\ CallOf(worker', j) = "import" /\ CallOf(worker, j) # "import" =>
                  /\ CallOf(worker, j) = "none"
                  /\ j \in DOMAIN jobObj => jobObj[j].status = "pending"
                  /\ jobObj'[j].status = "running"
            /\ CallOf(worker, j) = "scrape" => CallOf(worker', j) \in {"scrape", "done"}
            /\ CallOf(worker, j) = "done" => CallOf(worker', j) = "done"
            /\ CallOf(worker, j) # "none" => CallOf(worker', j) # "none"
            /\ jobObj'[j].status = "pending" <=> CallOf(worker', j) = "none"
       /\ activeJobs' = Cardinality(OpenCalls')]_vars

\* processJob has been called for every submitted job: three calls have ended,
\* one awaits its import and one its performScraping.
C26_Witness ==
    /\ created = LoadJobs
    /\ \A j \in LoadIds : CallOf(worker, j) # "none"
    /\ Cardinality({j \in LoadIds : CallOf(worker, j) = "done"}) = LoadJobs - 2
    /\ \E a, b \in OpenCalls : worker[a] = "import" /\ worker[b] = "scrape"

\* C27: at the end of a scheduling pass (addJob runs one, and so does every
\* timeout callback) no job is pending or maxConcurrentJobs jobs are running.
C27_PassFillsSlots ==
    [][addJob \/ PassTimer =>
          \/ PendingJobs' = {}
          \/ Cardinality(RunningJobs') = maxConcurrentJobs]_vars

\* A pass has started the job submitted fourth in a slot another job had left:
\* three jobs run again, and the job submitted last is still pending.
C27_Witness ==
    /\ LoadJobs \in Range(jobs) /\ StatusOf(LoadJobs) = "pending"
    /\ LoadJobs - 1 \in Range(jobs) /\ StatusOf(LoadJobs - 1) = "running"
    /\ Cardinality(RunningJobs) = maxConcurrentJobs
    /\ \E j \in Range(jobs) : Terminal(StatusOf(j))
    /\ passTimers = 0

\* C38: in every reachable state each job record has startedAt exactly when its
\* status is not pending, completedAt exactly when it is completed or failed,
\* result exactly when it is completed and error exactly when it is failed.
C38_RecordMatchesStatus ==
    \A j \in DOMAIN jobObj :
        /\ Has(jobObj[j], "startedAt") <=> jobObj[j].status # "pending"
        /\ Has(jobObj[j], "completedAt") <=> jobObj[j].status \in {"completed", "failed"}
        /\ Has(jobObj[j], "result") <=> jobObj[j].status = "completed"
        /\ Has(jobObj[j], "error") <=> jobObj[j].status = "failed"

\* The queue holds a pending, a running, a completed and a failed job at once.
C38_Witness ==
    \A st \in {"pending", "running", "completed", "failed"} :
        \E j \in Range(jobs) : StatusOf(j) = st

\* ---------------- content extraction
\* CSS selectors a target may watch, and the text an extraction may yield
\* ('' when no element matches).
SelectorNames == {"h1", "p"}

Contents == {"", "Hello", "World"}

\* A fetched page, seen through cheerio: the trimmed text each selector yields.
Pages == [SelectorNames -> Contents]

SelectorLists ==
    UNION {[1..n -> SelectorNames] : n \in 0..MaxSelectors}

\* A Record<string, string> is the sequence of its entries [k, v] in insertion
\* order, the order Object.entries walks.
Keys(m) == {m[i].k : i \in DOMAIN m}

Undefined == "undefined"

\* A Record is a plain object ({}): a key it does not have is looked up in
\* Object.prototype. Of the names found there, `constructor` is also a CSS type
\* selector; the lookup gives the function Object.
PrototypeKeys == {"constructor"}

Inherited == "function Object() { [native code] }"

\* m[key]: the stored string; for a key m does not have, what Object.prototype
\* has under that name, or undefined.
Get(m, key) ==
    IF key \in Keys(m) THEN m[CHOOSE i \in DOMAIN m : m[i].k = key].v
    ELSE IF key \in PrototypeKeys THEN Inherited
    ELSE Undefined

\* m[key] = value: an existing key keeps its place.
Put(m, key, value) ==
    IF key \in Keys(m)
      THEN [i \in DOMAIN m |-> IF m[i].k = key THEN [k |-> key, v |-> value] ELSE m[i]]
      ELSE Append(m, [k |-> key, v |-> value])

\* JavaScript's !x for x a string or undefined.
Falsy(x) == x = Undefined \/ x = ""

M_extractContentFromSelectors(page, selectors) ==
    LET found == SelectSeq(selectors, LAMBDA selector : page[selector] # "")
    IN  [i \in DOMAIN found |-> [k |-> found[i], v |-> page[found[i]]]]

\* extractContentFromSelectors(html, selectors), html giving `page`.
RECURSIVE extractContentFromSelectors(_, _)
extractContentFromSelectors(page, selectors) ==
    IF selectors = <<>> THEN <<>>
    ELSE LET n == Len(selectors)
             extractedContent == extractContentFromSelectors(page, SubSeq(selectors, 1, n - 1))
         IN  Put(extractedContent, selectors[n], page[selectors[n]])

\* ---------------- detectChanges
\* The first loop of detectChanges: "Check for new selectors".
ChangesOfCurrent(previousContent, currentContent) ==
    LET entry(i) ==
            LET selector == currentContent[i].k
                content == currentContent[i].v
            IN  IF Falsy(Get(previousContent, selector))
                  THEN <<[selector |-> selector, changeType |-> "added",
                          newContent |-> content]>>
                ELSE IF Get(previousContent, selector) # content
                  THEN <<[selector |-> selector, changeType |-> "modified",
                          oldContent |-> Get(previousContent, selector),
                          newContent |-> content]>>
                ELSE <<>>
        acc[i \in 0..Len(currentContent)] == IF i = 0 THEN <<>> ELSE acc[i - 1] \o entry(i)
    IN  acc[Len(currentContent)]

\* The second loop of detectChanges: "Check for removed selectors".
ChangesOfPrevious(previousContent, currentContent) ==
    LET entry(i) ==
            LET selector == previousContent[i].k
                content == previousContent[i].v
            IN  IF Falsy(Get(currentContent, selector))
                  THEN <<[selector |-> selector, changeType |-> "removed",
                          oldContent |-> content]>>
                ELSE <<>>
        acc[i \in 0..Len(previousContent)] == IF i = 0 THEN <<>> ELSE acc[i - 1] \o entry(i)
    IN  acc[Len(previousContent)]

detectChanges(previousContent, currentContent) ==
    ChangesOfCurrent(previousContent, currentContent)
        \o ChangesOfPrevious(previousContent, currentContent)

\* The snapshots a check can hold: {} of a new target, or an extraction.
Snapshots ==
    {extractContentFromSelectors(page, sels) : page \in Pages, sels \in SelectorLists}

QueueIdle ==
    /\ jobs = <<>>
    /\ jobObj = <<>>
    /\ created = 0
    /\ isProcessing = FALSE
    /\ activeJobs = 0
    /\ worker = <<>>
    /\ passTimers = 0
    /\ swept = 0

InitDiff ==
    /\ now = 0
    /\ QueueIdle
    /\ diffPrev \in Snapshots
    /\ diffCur \in Snapshots
    /\ diffOut = <<>>
    /\ diffPc = "input"
    /\ MonIdle

\* One call of detectChanges.
DetectChanges ==
    /\ diffPc = "input"
    /\ diffOut' = detectChanges(diffPrev, diffCur)
    /\ diffPc' = "done"
    /\ UNCHANGED <<now, qvars, diffPrev, diffCur, mvars>>

NextDiff == DetectChanges

SpecDiff == InitDiff /\ [][NextDiff]_vars

\* --------------------------------------------------- detectChanges claims
EntriesFor(s) == {i \in DOMAIN diffOut : diffOut[i].selector = s}

EntriesOfType(s, type) == {i \in EntriesFor(s) : diffOut[i].changeType = type}

\* C4: a selector that is a key of both snapshots with equal content (the empty
\* string included) has no entry in the diff; the diff of a map with itself is empty.
C4_EqualContentSilent ==
    diffPc = "done" =>
        /\ \A s \in Keys(diffPrev) \cap Keys(diffCur) :
              Get(diffPrev, s) = Get(diffCur, s) => EntriesFor(s) = {}
        /\ diffPrev = diffCur => diffOut = <<>>

\* C5: the diff has an `added` entry for s, with newContent = current[s], exactly
\* when s is a key of current and no key of previous.
C5_AddedIffNewKey ==
    diffPc = "done" =>
        \A s \in SelectorNames :
            /\ EntriesOfType(s, "added") # {}
                  <=> (s \in Keys(diffCur) /\ s \notin Keys(diffPrev))
            /\ \A i \in EntriesOfType(s, "added") : diffOut[i].newContent = Get(diffCur, s)

\* C6: the diff has a `removed` entry for s, with oldContent = previous[s], exactly
\* when s is a key of previous and no key of current.
C6_RemovedIffKeyGone ==
    diffPc = "done" =>
        \A s \in SelectorNames :
            /\ EntriesOfType(s, "removed") # {}
                  <=> (s \in Keys(diffPrev) /\ s \notin Keys(diffCur))
            /\ \A i \in EntriesOfType(s, "removed") : diffOut[i].oldContent = Get(diffPrev, s)

\* C7: a selector that is a key of both snapshots with different content has
\* exactly one entry, and it is `modified` with oldContent = previous[s] and
\* newContent = current[s].
C7_ModifiedOnce ==
    diffPc = "done" =>
        \A s \in Keys(diffPrev) \cap Keys(diffCur) :
            Get(diffPrev, s) # Get(diffCur, s) =>
                /\ Cardinality(EntriesFor(s)) = 1
                /\ \A i \in EntriesFor(s) :
                      /\ diffOut[i].changeType = "modified"
                      /\ diffOut[i].oldContent = Get(diffPrev, s)
                      /\ diffOut[i].newContent = Get(diffCur, s)

\* C36: the diff of two snapshots has at most one entry per selector.
C36_OneEntryPerSelector ==
    diffPc = "done" =>
        \A s \in SelectorNames : Cardinality(EntriesFor(s)) <= 1

\* ---------------- MonitoringService
TargetIds == 1..MaxTargets

NoTime == 0 - 1

\* The monitored page over time: its h1 shows "Hello" or is missing, and it has
\* no p element.
MonPages == {[h1 |-> "Hello", p |-> ""], [h1 |-> "", p |-> ""]}

\* What POST /api/monitoring passes to addMonitoringJob after its validation
\* (isActive: true always).
CreateInputs ==
    [isActive : {TRUE},
     checkInterval : {60},
     selectors : {<<"h1">>},
     notifications : {[enabled |-> FALSE], [enabled |-> TRUE, webhook |-> "hook"],
                      [enabled |-> TRUE, email |-> "ops@example.com"]}]

\* Request bodies of PUT /api/monitoring/status/[jobId]; the route passes the
\* body on as it came.
Patches ==
    {[isActive |-> FALSE], [isActive |-> TRUE], [checkInterval |-> 5],
     [checkInterval |-> 0], [selectors |-> <<"p">>]}

\* { ...a, ...b }
Merge(a, b) ==
    [f \in DOMAIN a \cup DOMAIN b |-> IF f \in DOMAIN b THEN b[f] ELSE a[f]]

MonState ==
    [jobs |-> monitoringJobs, obj |-> monObj, hist |-> histArr, next |-> nextRef,
     intervals |-> activeIntervals, timers |-> liveTimers, checks |-> checks,
     due |-> timerDue]

\* Objects a Map entry or a suspended check refers to, and their arrays.
LiveObjs(m) ==
    {m.jobs[j] : j \in DOMAIN m.jobs} \cup {c.job : c \in BagToSet(m.checks)}

LiveArrs(m) == {m.obj[r].changeHistory : r \in LiveObjs(m)}

SetMon(m) ==
    /\ monitoringJobs' = m.jobs
    /\ monObj' = Restrict(m.obj, LiveObjs(m))
    /\ histArr' = Restrict(m.hist, LiveArrs(m))
    /\ nextRef' = m.next
    /\ activeIntervals' = m.intervals
    /\ liveTimers' = m.timers
    /\ timerDue' = Restrict(m.due, BagToSet(m.timers) \cap DOMAIN m.due)
    /\ checks' = m.checks

M_stopMonitoringAll(m, jobId) ==
    IF jobId \in DOMAIN m.intervals
      THEN [m EXCEPT !.timers = EmptyBag, !.due = <<>>, !.intervals = <<>>]
      ELSE m

M_stopMonitoring(m, jobId) ==
    IF jobId \in DOMAIN m.intervals
      THEN [m EXCEPT !.intervals = Restrict(@, DOMAIN @ \ {jobId})]
      ELSE m

\* stopMonitoring: clearInterval and activeIntervals.delete, when there is an entry.
stopMonitoring(m, jobId) ==
    IF jobId \in DOMAIN m.intervals
      THEN [m EXCEPT !.timers = @ (-) SetToBag({m.intervals[jobId]}),
                     !.due = Restrict(@, DOMAIN @ \ {m.intervals[jobId]}),
                     !.intervals = Restrict(@, DOMAIN @ \ {jobId})]
      ELSE m

M_checkForChangesStart(m, jobId, origin) ==
    [m EXCEPT !.checks = @ (+) SetToBag({[jobId |-> jobId,
                                          job |-> IF jobId \in DOMAIN m.jobs
                                                    THEN m.jobs[jobId] ELSE 0,
                                          origin |-> origin, pc |-> "fetch",
                                          changes |-> <<>>]})]

\* checkForChanges up to `await fetch(...)`: the call keeps the object the Map
\* holds now. An unknown id throws 'Monitoring job not found' and changes nothing.
checkForChangesStart(m, jobId, origin) ==
    IF jobId \notin DOMAIN m.jobs THEN m
    ELSE [m EXCEPT !.checks = @ (+) SetToBag({[jobId |-> jobId, job |-> m.jobs[jobId],
                                              origin |-> origin, pc |-> "fetch",
                                              changes |-> <<>>]})]

\* startMonitoring up to the await of its initial check (no caller awaits it).
startMonitoring(m, jobId) ==
    IF jobId \notin DOMAIN m.jobs \/ ~m.obj[m.jobs[jobId]].isActive THEN m
    ELSE LET stopped == stopMonitoring(m, jobId)
             interval == [jobId |-> jobId,
                          period |-> m.obj[m.jobs[jobId]].checkInterval]
             started == [stopped EXCEPT !.timers = @ (+) SetToBag({interval}),
                                        !.due = (interval :> now + interval.period) @@ @,
                                        !.intervals = (jobId :> interval) @@ @]
         IN  checkForChangesStart(started, jobId, "initial")

\* addMonitoringJob(job): url, name, userId and createdAt are stored and never
\* read by the service; the model leaves them out of the object.
addMonitoringJob(m, jobId, job) ==
    LET ref == m.next + 1
        arr == m.next + 2
        monitoringJob == Merge(job, [id |-> jobId, previousContent |-> <<>>,
                                     changeHistory |-> arr])
        stored == [m EXCEPT !.next = arr,
                            !.obj = (ref :> monitoringJob) @@ @,
                            !.hist = (arr :> <<>>) @@ @,
                            !.jobs = (jobId :> ref) @@ @]
    IN  IF monitoringJob.isActive THEN startMonitoring(stored, jobId) ELSE stored

M_RestartsTimer(patch) == TRUE

\* The test of updateMonitoringJob: updates.checkInterval || updates.isActive !== undefined
RestartsTimer(patch) ==
    \/ (Has(patch, "checkInterval") /\ patch.checkInterval # 0)
    \/ Has(patch, "isActive")

\* updateMonitoringJob(jobId, updates): an unknown id returns false at once; for a
\* stored job the Map gets a new object, a shallow copy that shares the
\* changeHistory array.
updateMonitoringJob(m, jobId, patch) ==
    IF jobId \notin DOMAIN m.jobs THEN m
    ELSE
    LET job == m.obj[m.jobs[jobId]]
        ref == m.next + 1
        updatedJob == Merge(job, patch)
        stored == [m EXCEPT !.next = ref,
                            !.obj = (ref :> updatedJob) @@ @,
                            !.jobs = (jobId :> ref) @@ @]
    IN  IF RestartsTimer(patch)
          THEN LET stopped == stopMonitoring(stored, jobId)
               IN  IF updatedJob.isActive THEN startMonitoring(stopped, jobId) ELSE stopped
          ELSE stored

\* The status PUT answers: 404 when updateMonitoringJob returned false.
PutResponse(m, jobId) == IF jobId \in DOMAIN m.jobs THEN 200 ELSE 404

\* The status DELETE answers: 404 when Map.delete returned false.
DeleteResponse(m, jobId) == IF jobId \in DOMAIN m.jobs THEN 200 ELSE 404

M_removeMonitoringJob(m, jobId) ==
    [m EXCEPT !.jobs = Restrict(@, DOMAIN @ \ {jobId})]

\* removeMonitoringJob: stopMonitoring, then Map.delete.
removeMonitoringJob(m, jobId) ==
    [stopMonitoring(m, jobId) EXCEPT !.jobs = Restrict(@, DOMAIN @ \ {jobId})]

\* r.f = v, for a field r may not have yet.
SetField(r, f, v) == [x \in DOMAIN r \cup {f} |-> IF x = f THEN v ELSE r[x]]

\* array.slice(-n)
LastN(a, n) == IF Len(a) > n THEN SubSeq(a, Len(a) - n + 1, Len(a)) ELSE a

ReplaceCheck(m, c, d) == [m EXCEPT !.checks = (@ (-) SetToBag({c})) (+) SetToBag({d})]

DropCheck(m, c) == [m EXCEPT !.checks = @ (-) SetToBag({c})]

M_checkForChangesEnd(m, c) ==
    stopMonitoring(DropCheck([m EXCEPT !.jobs = (c.jobId :> c.job) @@ @], c), c.jobId)

\* The end of checkForChanges: this.monitoringJobs.set(jobId, job) with the object
\* the call has held since it started, then the result is returned.
checkForChangesEnd(m, c) ==
    DropCheck([m EXCEPT !.jobs = (c.jobId :> c.job) @@ @], c)

\* JavaScript's truthiness of an optional string field of r.
Truthy(r, f) == Has(r, f) /\ r[f] # ""

M_Dispatches(job, changes) == job.notifications.enabled

\* The two tests around the call of sendNotifications: changes.length > 0 and
\* job.notifications.enabled.
Dispatches(job, changes) == changes # <<>> /\ job.notifications.enabled

\* sendNotifications: the webhook branch, which awaits a POST.
PostsWebhook(job) == Truthy(job.notifications, "webhook")

\* sendNotifications: the email branch, two console.log calls.
EmailLog(job) == IF Truthy(job.notifications, "email") THEN {"log"} ELSE {}

\* What a check does between its writes and its next suspension: nothing, or the
\* call of sendNotifications, which posts to the webhook and waits, or else runs
\* to its end (the await of a settled promise lets no other task in).
DispatchEffects(job, changes) ==
    IF ~Dispatches(job, changes) THEN {}
    ELSE {"dispatch"} \cup (IF PostsWebhook(job) THEN {"post"} ELSE EmailLog(job))

Effects == SUBSET {"dispatch", "post", "log"}

Deliveries == {"ok", "failed"}

M_WebhookSettled(delivery) == IF delivery = "failed" THEN "thrown" ELSE "returned"

\* The try/catch around the webhook POST: a rejected fetch is logged, and
\* sendNotifications goes on either way.
WebhookSettled(delivery) == "returned"

\* checkForChanges from the fetched page on: extract, detectChanges, the writes to
\* the held object, and either `await this.sendNotifications(...)` or the end.
checkForChangesApply(m, c, page) ==
    LET job == m.obj[c.job]
        currentContent == extractContentFromSelectors(page, job.selectors)
        changes == detectChanges(job.previousContent, currentContent)
        checked == SetField(SetField(job, "previousContent", currentContent),
                            "lastChecked", now)
        pushed == m.hist[job.changeHistory]
                    \o [i \in 1..Len(changes) |-> Merge([timestamp |-> now], changes[i])]
        sliced == Len(pushed) > HistoryCap
        arr == m.next + 1
        changed == IF sliced
                     THEN SetField(SetField(checked, "lastChange", now), "changeHistory", arr)
                     ELSE SetField(checked, "lastChange", now)
        written ==
            IF changes = <<>> THEN [m EXCEPT !.obj[c.job] = checked]
            ELSE [m EXCEPT !.obj[c.job] = changed,
                           !.hist = IF sliced
                                      THEN (arr :> LastN(pushed, HistoryCap))
                                             @@ [@ EXCEPT ![job.changeHistory] = pushed]
                                      ELSE [@ EXCEPT ![job.changeHistory] = pushed],
                           !.next = IF sliced THEN arr ELSE @]
    IN  IF Dispatches(job, changes) /\ PostsWebhook(job)
          THEN ReplaceCheck(written, c, [c EXCEPT !.pc = "notify", !.changes = changes])
          ELSE checkForChangesEnd(written, c)

InFlight == BagToSet(checks)

\* The model starts no check beyond MaxInFlight suspended ones.
WithinFlight(m) == BagCardinality(m.checks) <= MaxInFlight

StoredJob(jobId) == monObj[monitoringJobs[jobId]]

LastCheckedOf(job) == IF Has(job, "lastChecked") THEN job.lastChecked ELSE NoTime

Without(f, x) == Restrict(f, DOMAIN f \ {x})

\* POST /api/monitoring -> addMonitoringJob
MonitoringPOST(input) ==
    /\ monCreated' = monCreated + 1
    /\ WithinFlight(addMonitoringJob(MonState, monCreated + 1, input))
    /\ SetMon(addMonitoringJob(MonState, monCreated + 1, input))
    /\ touched' = (monCreated + 1 :> now) @@ touched
    /\ UNCHANGED <<now, qvars, dvars, updates, nchecks, quiet>>

\* PUT /api/monitoring/status/[jobId] -> updateMonitoringJob; `updates` counts
\* the requests that found their target.
MonitoringPUT(jobId, patch) ==
    /\ updates < MaxUpdates
    /\ updates' = IF PutResponse(MonState, jobId) = 200 THEN updates + 1 ELSE updates
    /\ WithinFlight(updateMonitoringJob(MonState, jobId, patch))
    /\ SetMon(updateMonitoringJob(MonState, jobId, patch))
    /\ quiet' = IF PutResponse(MonState, jobId) = 404 THEN quiet
                ELSE IF Has(patch, "isActive") /\ ~patch.isActive
                     /\ ~\E c \in InFlight : c.jobId = jobId /\ c.origin = "manual"
                  THEN (jobId :> LastCheckedOf(StoredJob(jobId))) @@ quiet
                ELSE IF Has(patch, "isActive") THEN Without(quiet, jobId)
                ELSE quiet
    /\ touched' = IF PutResponse(MonState, jobId) = 200 THEN (jobId :> now) @@ touched
                                                         ELSE touched
    /\ UNCHANGED <<now, qvars, dvars, monCreated, nchecks>>

\* DELETE /api/monitoring/status/[jobId] -> removeMonitoringJob
MonitoringDELETE(jobId) ==
    /\ SetMon(removeMonitoringJob(MonState, jobId))
    /\ quiet' = Without(quiet, jobId)
    /\ touched' = IF jobId \in DOMAIN monitoringJobs THEN (jobId :> now) @@ touched
                                                       ELSE touched
    /\ UNCHANGED <<now, qvars, dvars, monCreated, updates, nchecks>>

\* POST /api/monitoring/check/[jobId] -> checkForChanges (checkNow)
MonitoringCheckPOST(jobId) ==
    /\ nchecks < MaxChecks
    /\ nchecks' = nchecks + 1
    /\ WithinFlight(checkForChangesStart(MonState, jobId, "manual"))
    /\ SetMon(checkForChangesStart(MonState, jobId, "manual"))
    /\ quiet' = Without(quiet, jobId)
    /\ touched' = IF jobId \in DOMAIN monitoringJobs THEN (jobId :> now) @@ touched
                                                       ELSE touched
    /\ UNCHANGED <<now, qvars, dvars, monCreated, updates>>

\* setInterval runs the callback again one period after this run was due.
Rearm(m, interval) == [m EXCEPT !.due[interval] = @ + interval.period]

\* The setInterval callback of a live timer: checkForChanges inside try/catch.
TimerFire(interval) ==
    /\ nchecks < MaxChecks
    /\ BagIn(interval, liveTimers)
    /\ nchecks' = nchecks + 1
    /\ WithinFlight(checkForChangesStart(MonState, interval.jobId, "timer"))
    /\ SetMon(checkForChangesStart(Rearm(MonState, interval), interval.jobId, "timer"))
    /\ UNCHANGED <<now, qvars, dvars, monCreated, updates, quiet, touched>>

\* What checkForChanges throws for an id the Map does not hold.
JobNotFound == [message |-> "Monitoring job not found", notFound |-> TRUE]

\* What fetch, response.ok or response.text() can throw: the message, and
\* whether message.includes('not found') (a reason phrase is the server's choice).
FetchErrors ==
    {[message |-> "fetch failed", notFound |-> FALSE],
     [message |-> "HTTP 404: not found", notFound |-> TRUE]}

FailureOutcomes == {"logged", "unhandledRejection", "http404", "http500"}

M_FailureOutcome(origin, error) ==
    IF origin = "manual" THEN (IF error.notFound THEN "http404" ELSE "http500")
    ELSE "unhandledRejection"

\* Where the error checkForChanges rethrows ends: the catch of the setInterval
\* callback logs it; the catch of POST /api/monitoring/check/[jobId] answers 404
\* or 500; nothing awaits the initial check of startMonitoring.
FailureOutcome(origin, error) ==
    IF origin = "timer" THEN "logged"
    ELSE IF origin = "manual" THEN (IF error.notFound THEN "http404" ELSE "http500")
    ELSE "unhandledRejection"

M_checkForChangesThrow(m, c) ==
    DropCheck([m EXCEPT !.obj[c.job] = SetField(@, "lastChecked", now)], c)

\* The catch block of checkForChanges: log and rethrow; nothing was written.
checkForChangesThrow(m, c) == DropCheck(m, c)

\* The fetch rejected, timed out or answered a non-OK status; the error ends as
\* `outcome`.
FetchFailed(c, error, outcome) ==
    /\ BagIn(c, checks) /\ c.pc = "fetch"
    /\ outcome = FailureOutcome(c.origin, error)
    /\ SetMon(checkForChangesThrow(MonState, c))
    /\ UNCHANGED <<now, qvars, dvars, monCreated, updates, nchecks, quiet, touched>>

\* The object checkForChanges returns, read when the check `c` ends.
MonitoringResult(m, c, changes) ==
    [hasChanges |-> Len(changes) > 0, changes |-> changes,
     checkedAt |-> m.obj[c.job].lastChecked]

\* The changes a check computes from the fetched page.
ChangesOf(c, page) ==
    detectChanges(monObj[c.job].previousContent,
                  extractContentFromSelectors(page, monObj[c.job].selectors))

\* The fetch answered `page`; the check goes on with `effects`.
FetchDone(c, page, effects) ==
    /\ BagIn(c, checks) /\ c.pc = "fetch"
    /\ effects = DispatchEffects(monObj[c.job], ChangesOf(c, page))
    /\ SetMon(checkForChangesApply(MonState, c, page))
    /\ UNCHANGED <<now, qvars, dvars, monCreated, updates, nchecks, quiet, touched>>

\* The webhook POST settled as `delivery`; sendNotifications goes on with
\* `effects` and the check ends.
NotificationsDone(c, delivery, effects) ==
    /\ BagIn(c, checks) /\ c.pc = "notify"
    /\ effects = EmailLog(monObj[c.job])
    /\ SetMon(IF WebhookSettled(delivery) = "thrown"
                THEN checkForChangesThrow(MonState, c)
                ELSE checkForChangesEnd(MonState, c))
    /\ UNCHANGED <<now, qvars, dvars, monCreated, updates, nchecks, quiet, touched>>

InitMon ==
    /\ now = 0
    /\ QueueIdle
    /\ DiffIdle
    /\ MonIdle

\* The clock advances (monitoring runs).
AdvanceClockMon ==
    /\ now < MaxMonTime
    /\ now' = now + 1
    /\ UNCHANGED <<qvars, dvars, mvars>>

NextMon ==
    \/ (monCreated < MaxTargets /\ \E input \in CreateInputs : MonitoringPOST(input))
    \/ \E jobId \in TargetIds, patch \in Patches : MonitoringPUT(jobId, patch)
    \/ \E jobId \in TargetIds : MonitoringDELETE(jobId)
    \/ \E jobId \in TargetIds : MonitoringCheckPOST(jobId)
    \/ \E interval \in BagToSet(liveTimers) : TimerFire(interval)
    \/ \E c \in InFlight, error \in FetchErrors, outcome \in FailureOutcomes :
          FetchFailed(c, error, outcome)
    \/ \E c \in InFlight, page \in MonPages :
          FetchDone(c, page, DispatchEffects(monObj[c.job], ChangesOf(c, page)))
    \/ \E c \in InFlight, delivery \in Deliveries :
          NotificationsDone(c, delivery, EmailLog(monObj[c.job]))
    \/ AdvanceClockMon

SpecMon == InitMon /\ [][NextMon]_vars

\* --------------------------------------------------- MonitoringService claims
TimersOf(jobId) == {t \in BagToSet(liveTimers) : t.jobId = jobId}

\* The number of live timers of a target.
TimerCount(jobId) ==
    LET ts == TimersOf(jobId)
        RECURSIVE sum(_)
        sum(S) == IF S = {} THEN 0
                  ELSE LET t == CHOOSE x \in S : TRUE
                       IN  CopiesIn(t, liveTimers) + sum(S \ {t})
    IN  sum(ts)

\* C8: in every reachable state each monitoring target has at most one live timer.
C8_OneTimerPerTarget == \A jobId \in TargetIds : TimerCount(jobId) <= 1

\* A target's timer has been replaced by an update of its interval.
C8_Witness ==
    \E jobId \in DOMAIN activeIntervals :
        /\ activeIntervals[jobId].period = 5
        /\ TimerCount(jobId) = 1

\* C9: every stored target whose isActive is true has a live timer that
\* activeIntervals holds (create, update and delete run to completion in one step,
\* so none of them is in progress in any state).
C9_ActiveHasTimer ==
    \A jobId \in DOMAIN monitoringJobs :
        StoredJob(jobId).isActive =>
            /\ jobId \in DOMAIN activeIntervals
            /\ BagIn(activeIntervals[jobId], liveTimers)

\* C10: once update(jobId, {isActive: false}) has returned ok, and until a later
\* update of isActive, a checkNow or a delete, the stored target's lastChecked is
\* the one it had when the update returned.
C10_NoCheckAfterDeactivate ==
    \A jobId \in DOMAIN quiet :
        jobId \in DOMAIN monitoringJobs => LastCheckedOf(StoredJob(jobId)) = quiet[jobId]

\* GET /api/monitoring/status/[jobId]: 404 'Monitoring job not found' or the job.
MonitoringStatusGET(jobId) ==
    IF jobId \notin DOMAIN monitoringJobs THEN [status |-> 404]
    ELSE [status |-> 200, body |-> StoredJob(jobId)]

\* getAllMonitoringJobs: the ids of the jobs listed.
getAllMonitoringJobs == DOMAIN monitoringJobs

\* C11: a target id that was created and is no longer stored (its delete returned
\* ok) is not stored after any later step: GET answers 404 and the list does not
\* contain it, whatever checks were in flight at the delete.
C11_DeletedStaysGone ==
    [][\A jobId \in 1..monCreated :
          jobId \notin DOMAIN monitoringJobs =>
              /\ MonitoringStatusGET(jobId)'.status = 404
              /\ jobId \notin getAllMonitoringJobs']_vars

\* The timers setInterval can have returned.
TimerHandles == [jobId : TargetIds, period : {0, 5, 60}]

\* C12: the step of a delete, or of an update with {isActive: false}, leaves the
\* target no live timer and no activeIntervals entry; a delete of a target without
\* a timer leaves the timer list as it is; a target without a live timer gets one
\* only by a create or an update of that target; and a timer callback runs only
\* for a timer that is live.
C12_CancelLeavesNoTimer ==
    [][/\ \A jobId \in TargetIds :
            /\ MonitoringDELETE(jobId) =>
                  /\ TimerCount(jobId)' = 0
                  /\ jobId \notin DOMAIN activeIntervals'
                  /\ TimerCount(jobId) = 0 => liveTimers' = liveTimers
            /\ MonitoringPUT(jobId, [isActive |-> FALSE]) =>
                  /\ TimerCount(jobId)' = 0
                  /\ jobId \notin DOMAIN activeIntervals'
            /\ TimerCount(jobId) = 0 /\ TimerCount(jobId)' > 0 =>
                  \/ \E input \in CreateInputs : MonitoringPOST(input)
                  \/ \E patch \in Patches : MonitoringPUT(jobId, patch)
       /\ \A interval \in TimerHandles :
            TimerFire(interval) => TimerCount(interval.jobId) > 0]_vars

\* An update with {isActive: false} has returned for a target that had a timer
\* (every target is created active), and the target is stored inactive, timerless.
C12_Witness ==
    \E jobId \in DOMAIN quiet \cap DOMAIN monitoringJobs :
        ~StoredJob(jobId).isActive /\ TimerCount(jobId) = 0
\* C13: when create returns the id of a target it made active, the target has its
\* timer, and its stored object already shows the initial check: lastChecked is
\* set and previousContent has one key per configured selector.
C13_CreateReturnsChecked ==
    [][\A input \in CreateInputs :
          MonitoringPOST(input) /\ input.isActive =>
              LET jobId == monCreated + 1
              IN  /\ TimerCount(jobId)' = 1
                  /\ Has(StoredJob(jobId)', "lastChecked")
                  /\ Keys(StoredJob(jobId)'.previousContent) = Range(input.selectors)]_vars

HistoryOf(job) == histArr[job.changeHistory]

\* C15: the step in which the fetch of a check fails leaves the Map, every stored
\* target (previousContent, lastChecked, lastChange, isActive and the rest), its
\* changeHistory and the object the check held as they were, and moves no check
\* to the dispatch of notifications: the failed check is gone, nothing else.
C15_FailedFetchTouchesNothing ==
    [][\A c \in InFlight, error \in FetchErrors, outcome \in FailureOutcomes :
          FetchFailed(c, error, outcome) =>
              /\ monitoringJobs' = monitoringJobs
              /\ \A jobId \in DOMAIN monitoringJobs :
                    /\ StoredJob(jobId)' = StoredJob(jobId)
                    /\ HistoryOf(StoredJob(jobId))' = HistoryOf(StoredJob(jobId))
              /\ c.job \in DOMAIN monObj' => monObj'[c.job] = monObj[c.job]
              /\ checks' = checks (-) SetToBag({c})]_vars

\* Every check of a stored target has failed: none is in flight, and the target,
\* whose timer is live, has never been marked checked.
C15_Witness ==
    \E jobId \in DOMAIN monitoringJobs :
        /\ checks = EmptyBag
        /\ ~Has(StoredJob(jobId), "lastChecked")
        /\ StoredJob(jobId).previousContent = <<>>
        /\ TimerCount(jobId) = 1

\* C16: when the fetch of a timer-driven check fails, the error ends in the log of
\* the timer callback and in no response, and the timer list, activeIntervals and
\* the time of the next callback stay as they are; when the fetch of a checkNow
\* fails, the route answers its caller with an error status.
C16_TickFailureSwallowed ==
    [][\A c \in InFlight, error \in FetchErrors, outcome \in FailureOutcomes :
          FetchFailed(c, error, outcome) =>
              /\ c.origin = "timer" =>
                    /\ outcome = "logged"
                    /\ liveTimers' = liveTimers
                    /\ activeIntervals' = activeIntervals
                    /\ timerDue' = timerDue
              /\ c.origin = "manual" => outcome \in {"http404", "http500"}]_vars

\* A timer has run its callback (it is armed more than one period ahead), every
\* check has failed, and the timer is still live.
C16_Witness ==
    \E jobId \in DOMAIN monitoringJobs \cap DOMAIN activeIntervals :
        /\ checks = EmptyBag
        /\ ~Has(StoredJob(jobId), "lastChecked")
        /\ BagIn(activeIntervals[jobId], liveTimers)
        /\ timerDue[activeIntervals[jobId]] > now + activeIntervals[jobId].period

\* How the check c ends once its webhook POST has settled as `delivery`: with the
\* result it returns, or with the error it throws at its caller.
CheckOutcome(m, c, delivery) ==
    IF WebhookSettled(delivery) = "thrown" THEN [error |-> "webhook"]
    ELSE [result |-> MonitoringResult(m, c, c.changes)]

\* C22: a step that ends a check after a failed webhook POST is also a step that
\* ends it after a delivered one (the same Map, objects, histories and timers
\* result), the check returns the same MonitoringResult and throws nothing, and
\* the object it wrote (previousContent, lastChecked, lastChange, changeHistory)
\* is stored as it was when the POST was sent.
C22_WebhookFailureHarmless ==
    [][\A c \in InFlight, effects \in Effects :
          NotificationsDone(c, "failed", effects) =>
              /\ NotificationsDone(c, "ok", effects)
              /\ CheckOutcome(MonState, c, "failed") = CheckOutcome(MonState, c, "ok")
              /\ Has(CheckOutcome(MonState, c, "failed"), "result")
              /\ StoredJob(c.jobId)' = monObj[c.job]
              /\ HistoryOf(StoredJob(c.jobId))' = HistoryOf(monObj[c.job])]_vars

\* The check of a target with a webhook found changes, posted them and has ended:
\* no check is in flight and the stored target shows the check.
C22_Witness ==
    \E jobId \in DOMAIN monitoringJobs :
        /\ checks = EmptyBag
        /\ PostsWebhook(StoredJob(jobId))
        /\ StoredJob(jobId).notifications.enabled
        /\ Has(StoredJob(jobId), "lastChange")
        /\ HistoryOf(StoredJob(jobId)) # <<>>

\* C23: when an update whose patch holds checkInterval or isActive has returned
\* ok, the target has a live timer if and only if its stored isActive is true, it
\* has no second one, and that timer was set by this update (it is armed one
\* period from now) with the stored checkInterval as its period.
C23_UpdateRestartsTimer ==
    [][\A jobId \in TargetIds, patch \in Patches :
          PutResponse(MonState, jobId) = 200
            /\ (Has(patch, "checkInterval") \/ Has(patch, "isActive"))
            /\ MonitoringPUT(jobId, patch) =>
              /\ TimerCount(jobId)' = (IF StoredJob(jobId)'.isActive THEN 1 ELSE 0)
              /\ \A interval \in TimersOf(jobId)' :
                    /\ interval.period = StoredJob(jobId)'.checkInterval
                    /\ timerDue'[interval] = now + interval.period]_vars

\* C24: in every reachable state, for an id the Map does not hold, update,
\* delete and checkNow leave the Map, the objects, the timers and the checks in
\* flight as they are (no target, no timer change, no fetch), and each of them is
\* answered 404.
C24_UnknownIdChangesNothing ==
    \A jobId \in TargetIds \ DOMAIN monitoringJobs :
        /\ \A patch \in Patches :
              /\ updateMonitoringJob(MonState, jobId, patch) = MonState
              /\ PutResponse(MonState, jobId) = 404
        /\ removeMonitoringJob(MonState, jobId) = MonState
        /\ DeleteResponse(MonState, jobId) = 404
        /\ checkForChangesStart(MonState, jobId, "manual") = MonState
        /\ FailureOutcome("manual", JobNotFound) = "http404"

\* A checkNow was served before any target existed: nothing is stored, no timer
\* is live and no check is in flight.
C24_Witness ==
    /\ nchecks > 0
    /\ monCreated = 0
    /\ monitoringJobs = <<>>
    /\ liveTimers = EmptyBag
    /\ checks = EmptyBag

\* The check that checkNow starts for a stored target.
ManualCheck(jobId) ==
    [jobId |-> jobId, job |-> monitoringJobs[jobId], origin |-> "manual",
     pc |-> "fetch", changes |-> <<>>]

\* The step leaves the timers as they are: the set of live timers, the entries of
\* activeIntervals and the time of every next callback.
TimersKept ==
    /\ liveTimers' = liveTimers
    /\ activeIntervals' = activeIntervals
    /\ timerDue' = timerDue

\* C31: the request of a checkNow starts a check of the stored target, active or
\* not, and leaves the timers as they are; and every later step of a manual check
\* (its fetch failing, its page arriving, its webhook POST settling: the steps
\* that take the check from the calls in flight) leaves the timers as they are.
C31_CheckNowLeavesTimers ==
    [][/\ \A jobId \in TargetIds :
            nchecks' # nchecks /\ MonitoringCheckPOST(jobId) =>
                /\ TimersKept
                /\ jobId \in DOMAIN monitoringJobs =>
                      checks' = checks (+) SetToBag({ManualCheck(jobId)})
       /\ \A c \in InFlight :
            c.origin = "manual" /\ CopiesIn(c, checks') < CopiesIn(c, checks) =>
                TimersKept]_vars

\* A checkNow of a target that is stored inactive, without a timer, has run to
\* its end: the target shows the check and still has no timer.
C31_Witness ==
    \E jobId \in DOMAIN monitoringJobs :
        /\ ~StoredJob(jobId).isActive
        /\ TimerCount(jobId) = 0
        /\ nchecks > 0
        /\ checks = EmptyBag
        /\ Has(StoredJob(jobId), "lastChecked")
        /\ jobId \notin DOMAIN quiet

\* The check of POST /api/monitoring on checkInterval: 5 minutes to 24 hours.
ValidInterval(checkInterval) == ~(checkInterval < 5 \/ checkInterval > 1440)

\* The check of POST /api/monitoring on selectors: a non-empty array.
ValidSelectors(selectors) == ~(Len(selectors) = 0)

\* C32: in every reachable state every stored target has a checkInterval within
\* 5..1440 and a non-empty selector list.
C32_StoredWithinBounds ==
    \A jobId \in DOMAIN monitoringJobs :
        /\ ValidInterval(StoredJob(jobId).checkInterval)
        /\ ValidSelectors(StoredJob(jobId).selectors)

\* The fields the request bodies of PUT set.
PatchFields == UNION {DOMAIN patch : patch \in Patches}

\* C33: an update that returns ok leaves the stored target with the patch's value
\* in every patched field, and a step that is neither an update nor a delete of a
\* stored target (a step of any check, in flight at the update or started later,
\* among them) leaves every field an update can patch as it is: a patched value
\* stays until the next update or delete.
C33_UpdateNeverLost ==
    [][\A jobId \in DOMAIN monitoringJobs :
          /\ \A patch \in Patches :
                updates' # updates /\ MonitoringPUT(jobId, patch) =>
                    \A f \in DOMAIN patch : StoredJob(jobId)'[f] = patch[f]
          /\ updates' = updates /\ jobId \in DOMAIN monitoringJobs' =>
                \A f \in PatchFields : StoredJob(jobId)'[f] = StoredJob(jobId)[f]]_vars

\* C34: in every reachable state every live timer belongs to a target that is
\* stored and whose stored isActive is true.
C34_TimerHasActiveTarget ==
    \A interval \in BagToSet(liveTimers) :
        /\ interval.jobId \in DOMAIN monitoringJobs
        /\ StoredJob(interval.jobId).isActive

\* C37: an update of a stored target whose patch holds neither checkInterval nor
\* isActive leaves the timers as they are (none stopped, none set, no callback
\* time moved), starts no check, and leaves every field of the stored target that
\* is not in the patch, and the target's history, as they are.
C37_PlainUpdateKeepsTimer ==
    [][\A jobId \in DOMAIN monitoringJobs, patch \in Patches :
          updates' # updates
            /\ ~Has(patch, "checkInterval") /\ ~Has(patch, "isActive")
            /\ MonitoringPUT(jobId, patch) =>
              /\ TimersKept
              /\ checks' = checks
              /\ DOMAIN StoredJob(jobId)' = DOMAIN StoredJob(jobId) \cup DOMAIN patch
              /\ \A f \in DOMAIN StoredJob(jobId) \ DOMAIN patch :
                    StoredJob(jobId)'[f] = StoredJob(jobId)[f]
              /\ HistoryOf(StoredJob(jobId))' = HistoryOf(StoredJob(jobId))]_vars

\* An update of the selectors alone was served one clock unit after the target
\* was created: the timer set at the creation is live, due as it was set, and no
\* check is in flight.
C37_Witness ==
    \E jobId \in DOMAIN monitoringJobs \cap DOMAIN activeIntervals :
        /\ now = 1 /\ touched[jobId] = 1 /\ nchecks = 0 /\ updates = 1
        /\ StoredJob(jobId).selectors = <<"p">>
        /\ StoredJob(jobId).checkInterval = 60
        /\ TimerCount(jobId) = 1
        /\ timerDue[activeIntervals[jobId]] = 60
        /\ checks = EmptyBag

\* ---------------- the checks of one target
\* Request bodies of PUT that change what a check looks at, or start one.
CheckPatches == {[selectors |-> <<"p">>], [isActive |-> TRUE]}

NextCheck ==
    \/ (monCreated < MaxTargets /\ \E input \in CreateInputs : MonitoringPOST(input))
    \/ \E jobId \in TargetIds, patch \in CheckPatches : MonitoringPUT(jobId, patch)
    \/ \E jobId \in TargetIds : MonitoringCheckPOST(jobId)
    \/ \E interval \in BagToSet(liveTimers) : TimerFire(interval)
    \/ \E c \in InFlight, error \in FetchErrors, outcome \in FailureOutcomes :
          FetchFailed(c, error, outcome)
    \/ \E c \in InFlight, page \in MonPages :
          FetchDone(c, page, DispatchEffects(monObj[c.job], ChangesOf(c, page)))
    \/ \E c \in InFlight, delivery \in Deliveries :
          NotificationsDone(c, delivery, EmailLog(monObj[c.job]))
    \/ AdvanceClockMon

SpecCheck == InitMon /\ [][NextCheck]_vars

\* The step in which the check c returns its result: after its writes when it
\* posts nothing, or else when its webhook POST has settled.
CheckSucceeds(c) ==
    \/ \E page \in MonPages :
          /\ "post" \notin DispatchEffects(monObj[c.job], ChangesOf(c, page))
          /\ FetchDone(c, page, DispatchEffects(monObj[c.job], ChangesOf(c, page)))
    \/ \E delivery \in Deliveries : NotificationsDone(c, delivery, EmailLog(monObj[c.job]))

LastChangeOf(job) == IF Has(job, "lastChange") THEN job.lastChange ELSE NoTime

\* The entries a check appends to the history for its changes.
Stamped(changes) == [i \in DOMAIN changes |-> Merge([timestamp |-> now], changes[i])]

\* The stored target of check c before and after the step in which c gets its
\* page and returns: the snapshot is the map extracted from the page, lastChecked
\* is the time of the check, lastChange and the history are as before when the
\* diff is empty and else lastChange is the time of the check and the history
\* has grown by the diff's entries, in order.
CheckFrame(c, page) ==
    LET before == StoredJob(c.jobId)
        changes == ChangesOf(c, page)
    IN  /\ StoredJob(c.jobId)'.previousContent
              = extractContentFromSelectors(page, monObj[c.job].selectors)
        /\ StoredJob(c.jobId)'.lastChecked = now
        /\ changes = <<>> =>
              /\ LastChangeOf(StoredJob(c.jobId)') = LastChangeOf(before)
              /\ HistoryOf(StoredJob(c.jobId))' = HistoryOf(before)
        /\ changes # <<>> =>
              /\ LastChangeOf(StoredJob(c.jobId)') = now
              /\ HistoryOf(StoredJob(c.jobId))' = HistoryOf(before) \o Stamped(changes)
        /\ MonitoringResult([obj |-> monObj'], c, changes)
              = [hasChanges |-> changes # <<>>, changes |-> changes,
                 checkedAt |-> StoredJob(c.jobId)'.lastChecked]

\* C29: a check of a stored target that gets its page and returns changes the
\* stored target as CheckFrame says and returns hasChanges, changes and
\* checkedAt accordingly; a check that returns after its webhook POST returns
\* the diff it posted and the stored lastChecked.
C29_CheckFrame ==
    [][\A c \in InFlight :
          CopiesIn(c, checks') < CopiesIn(c, checks) =>
              /\ \A page \in MonPages :
                    /\ c.jobId \in DOMAIN monitoringJobs
                    /\ "post" \notin DispatchEffects(monObj[c.job], ChangesOf(c, page))
                    /\ FetchDone(c, page, DispatchEffects(monObj[c.job], ChangesOf(c, page)))
                    => CheckFrame(c, page)
              /\ \A delivery \in Deliveries :
                    NotificationsDone(c, delivery, EmailLog(monObj[c.job])) =>
                        MonitoringResult([obj |-> monObj'], c, c.changes)
                          = [hasChanges |-> TRUE, changes |-> c.changes,
                             checkedAt |-> StoredJob(c.jobId)'.lastChecked]]_vars

\* The check c, suspended at the webhook POST of `changes`.
Posting(c, changes) == [c EXCEPT !.pc = "notify", !.changes = changes]

\* C30: the step in which a check gets its page calls sendNotifications exactly
\* when the diff is non-empty and notifications.enabled is true; the call posts
\* to the webhook exactly when notifications.webhook is set, and then the check
\* waits for that POST; an email address alone gives a log entry and no request,
\* and the check has returned. The step in which the POST settles calls and
\* posts nothing more, and the check is over.
C30_DispatchOnce ==
    [][\A c \in InFlight :
          CopiesIn(c, checks') < CopiesIn(c, checks) =>
              /\ \A page \in MonPages, effects \in Effects :
                    FetchDone(c, page, effects) =>
                        LET job == monObj[c.job]
                            changes == ChangesOf(c, page)
                            posting == Posting(c, changes)
                        IN  /\ "dispatch" \in effects
                                  <=> (Len(changes) > 0 /\ job.notifications.enabled)
                            /\ "post" \in effects
                                  <=> ("dispatch" \in effects
                                         /\ Truthy(job.notifications, "webhook"))
                            /\ "post" \in effects
                                  <=> CopiesIn(posting, checks') > CopiesIn(posting, checks)
                            /\ "log" \in effects => Truthy(job.notifications, "email")
                            /\ ~Truthy(job.notifications, "webhook") =>
                                  checks' = checks (-) SetToBag({c})
              /\ \A delivery \in Deliveries, effects \in Effects :
                    NotificationsDone(c, delivery, effects) =>
                        /\ "dispatch" \notin effects /\ "post" \notin effects
                        /\ checks' = checks (-) SetToBag({c})]_vars

\* A target that notifies by email only has been checked and has changes in its
\* history (its check called sendNotifications), and no check is in flight.
C30_Witness ==
    \E jobId \in DOMAIN monitoringJobs :
        /\ checks = EmptyBag
        /\ StoredJob(jobId).notifications.enabled
        /\ Truthy(StoredJob(jobId).notifications, "email")
        /\ Has(StoredJob(jobId), "lastChecked")
        /\ HistoryOf(StoredJob(jobId)) # <<>>

\* The check c holds a target that has been checked before, and `page` gives the
\* snapshot that the check before left.
SameSnapshot(c, page) ==
    /\ Has(monObj[c.job], "lastChecked")
    /\ extractContentFromSelectors(page, monObj[c.job].selectors)
          = monObj[c.job].previousContent

\* C35: when a check of a target that was checked before extracts the snapshot
\* the target already has (empty strings of unmatched selectors included), the
\* step in which it gets its page computes no change and returns hasChanges =
\* false, calls sendNotifications not at all, and leaves the held target's
\* lastChange and history as they are.
C35_SameSnapshotSilent ==
    [][\A c \in InFlight :
          CopiesIn(c, checks') < CopiesIn(c, checks) =>
              \A page \in MonPages, effects \in Effects :
                  SameSnapshot(c, page) /\ FetchDone(c, page, effects) =>
                      /\ ChangesOf(c, page) = <<>>
                      /\ ~MonitoringResult([obj |-> monObj'], c, ChangesOf(c, page)).hasChanges
                      /\ effects = {}
                      /\ LastChangeOf(monObj'[c.job]) = LastChangeOf(monObj[c.job])
                      /\ histArr'[monObj'[c.job].changeHistory] = HistoryOf(monObj[c.job])]_vars

\* ---------------- the first check of a target
\* Selectors of the targets whose first check is followed: element names, one of
\* them a name Object.prototype has too.
FirstSelectors == SelectorNames \cup PrototypeKeys

\* The pages these targets watch: h1 and p come and go, no other element exists.
FirstPages ==
    {[s \in FirstSelectors |-> IF s = "h1" THEN h ELSE IF s = "p" THEN t ELSE ""] :
        h \in {"Hello", ""}, t \in {"World", ""}}

\* What POST /api/monitoring passes on for them: its validation asks for a
\* non-empty array of non-empty strings, no more.
FirstInputs ==
    [isActive : {TRUE},
     checkInterval : {60},
     selectors : {<<"h1">>, <<"h1", "p">>, <<"p", "h1">>, <<"h1", "h1">>,
                  <<"constructor">>, <<"h1", "constructor">>},
     notifications : {[enabled |-> FALSE], [enabled |-> TRUE, webhook |-> "hook"],
                      [enabled |-> TRUE, email |-> "ops@example.com"]}]

NextFirst ==
    \/ (monCreated < MaxTargets /\ \E input \in FirstInputs : MonitoringPOST(input))
    \/ \E jobId \in TargetIds : MonitoringCheckPOST(jobId)
    \/ \E interval \in BagToSet(liveTimers) : TimerFire(interval)
    \/ \E c \in InFlight, error \in FetchErrors, outcome \in FailureOutcomes :
          FetchFailed(c, error, outcome)
    \/ \E c \in InFlight, page \in FirstPages :
          FetchDone(c, page, DispatchEffects(monObj[c.job], ChangesOf(c, page)))
    \/ \E c \in InFlight, delivery \in Deliveries :
          NotificationsDone(c, delivery, EmailLog(monObj[c.job]))

SpecFirst == InitMon /\ [][NextFirst]_vars

\* The check c holds a target no check has written to: its snapshot is the {} of
\* addMonitoringJob.
FirstCheck(c) ==
    /\ monObj[c.job].previousContent = <<>>
    /\ ~Has(monObj[c.job], "lastChecked")

Distinct(seq) == \A i, k \in DOMAIN seq : seq[i] = seq[k] => i = k

\* One `added` entry per selector, in selector order, with the content of `page`.
AllAdded(selectors, page) ==
    [i \in DOMAIN selectors |->
        [selector |-> selectors[i], changeType |-> "added", newContent |-> page[selectors[i]]]]

\* C39: when the first check of a target with distinct selectors gets its page,
\* its diff is one `added` entry per selector, in selector order, whatever the
\* page holds; it returns hasChanges = true, and it calls sendNotifications
\* exactly when notifications.enabled is true.
C39_FirstCheckAddsAll ==
    [][\A c \in InFlight :
          CopiesIn(c, checks') < CopiesIn(c, checks) =>
              \A page \in FirstPages, effects \in Effects :
                  FirstCheck(c) /\ Distinct(monObj[c.job].selectors)
                    /\ FetchDone(c, page, effects) =>
                      /\ ChangesOf(c, page) = AllAdded(monObj[c.job].selectors, page)
                      /\ MonitoringResult([obj |-> monObj'], c, ChangesOf(c, page)).hasChanges
                      /\ "dispatch" \in effects <=> monObj[c.job].notifications.enabled]_vars

\* ---------------- two targets side by side
\* One target more than the other runs of the service create.
PairTargets == MaxTargets + 1

PairIds == 1..PairTargets

\* What POST /api/monitoring passes on for the targets of a pair.
PairInputs == {input \in CreateInputs : ~input.notifications.enabled}

\* Request bodies of PUT for the targets of a pair.
PairPatches == {[isActive |-> FALSE], [isActive |-> TRUE]}

NextPair ==
    \/ (monCreated < PairTargets /\ \E input \in PairInputs : MonitoringPOST(input))
    \/ \E jobId \in PairIds, patch \in PairPatches : MonitoringPUT(jobId, patch)
    \/ \E jobId \in PairIds : MonitoringDELETE(jobId)
    \/ \E jobId \in PairIds : MonitoringCheckPOST(jobId)
    \/ \E interval \in BagToSet(liveTimers) : TimerFire(interval)
    \/ \E c \in InFlight, error \in FetchErrors, outcome \in FailureOutcomes :
          FetchFailed(c, error, outcome)
    \/ \E c \in InFlight, page \in MonPages :
          FetchDone(c, page, DispatchEffects(monObj[c.job], ChangesOf(c, page)))

SpecPair == InitMon /\ [][NextPair]_vars

\* The step is a create, update, delete, checkNow or timer callback of target a,
\* or the end of the fetch of one of its checks.
ActsOn(a) ==
    \/ monCreated + 1 = a /\ \E input \in PairInputs : MonitoringPOST(input)
    \/ \E patch \in PairPatches : MonitoringPUT(a, patch)
    \/ MonitoringDELETE(a)
    \/ MonitoringCheckPOST(a)
    \/ \E interval \in TimersOf(a) : TimerFire(interval)
    \/ \E c \in InFlight :
          /\ c.jobId = a
          /\ \/ \E error \in FetchErrors, outcome \in FailureOutcomes :
                    FetchFailed(c, error, outcome)
             \/ \E page \in MonPages :
                    FetchDone(c, page, DispatchEffects(monObj[c.job], ChangesOf(c, page)))

\* The step leaves target b as it is: stored or not, its record and history, its
\* timer and the time of its next callback, and its checks in flight.
Untouched(b) ==
    /\ (b \in DOMAIN monitoringJobs') = (b \in DOMAIN monitoringJobs)
    /\ b \in DOMAIN monitoringJobs =>
          /\ StoredJob(b)' = StoredJob(b)
          /\ HistoryOf(StoredJob(b))' = HistoryOf(StoredJob(b))
    /\ (b \in DOMAIN activeIntervals') = (b \in DOMAIN activeIntervals)
    /\ b \in DOMAIN activeIntervals => activeIntervals'[b] = activeIntervals[b]
    /\ TimersOf(b)' = TimersOf(b)
    /\ \A interval \in TimersOf(b) :
          /\ CopiesIn(interval, liveTimers') = CopiesIn(interval, liveTimers)
          /\ timerDue'[interval] = timerDue[interval]
    /\ \A c \in InFlight \cup InFlight' :
          c.jobId = b =>
              /\ CopiesIn(c, checks') = CopiesIn(c, checks)
              /\ c.job \in DOMAIN monObj => monObj'[c.job] = monObj[c.job]

\* C25: a step that is an operation on target a, or the end of a fetch of one of
\* a's checks, leaves every other target b untouched.
C25_TargetsIndependent ==
    [][\A a \in PairIds : (\A b \in PairIds \ {a} : Untouched(b)) \/ ~ActsOn(a)]_vars

\* Two targets are stored; the updates went to one of them and the first has its
\* timer and a check in flight, the second has its timer, has been checked and
\* has its first changes in its history.
C25_Witness ==
    /\ DOMAIN monitoringJobs = PairIds
    /\ updates = MaxUpdates
    /\ TimerCount(1) = 1 /\ (\E c \in InFlight : c.jobId = 1)
    /\ TimerCount(2) = 1 /\ Has(StoredJob(2), "lastChecked")
    /\ HistoryOf(StoredJob(2)) # <<>>

\* ---------------- a target with a long history
\* The page of the k-th check of a target whose h1 comes and goes.
PastPage(k) == IF k % 2 = 1 THEN [h1 |-> "Hello", p |-> ""] ELSE [h1 |-> "", p |-> ""]

\* Checks a target has behind it at the start of the runs on a long history.
PastChecks == 33

\* The target [previousContent, changeHistory] after the checks number first..last
\* run one after the other on `start`, each to its end, the k-th at time
\* k - PastChecks: lines 152-175 of checkForChanges, applied once per check.
AfterChecks(start, first, last) ==
    LET after[k \in (first - 1)..last] ==
            IF k = first - 1 THEN start
            ELSE LET before == after[k - 1]
                     currentContent == extractContentFromSelectors(PastPage(k), <<"h1">>)
                     changes == detectChanges(before.previousContent, currentContent)
                     pushed == before.changeHistory
                                 \o [i \in 1..Len(changes) |->
                                       Merge([timestamp |-> k - PastChecks], changes[i])]
                 IN  [previousContent |-> currentContent,
                      changeHistory |-> LastN(pushed, HistoryCap)]
    IN  after[last]

NewTarget == [previousContent |-> <<>>, changeHistory |-> <<>>]

\* The replay in three legs.
PastLeg1 == AfterChecks(NewTarget, 1, 11)

PastLeg2 == AfterChecks(PastLeg1, 12, 22)

PastTarget == AfterChecks(PastLeg2, 23, PastChecks)

\* The service holding one active target that has run PastChecks checks, the last
\* of them now: its timer is armed for the next period.
InitHist ==
    /\ now = 0
    /\ QueueIdle
    /\ DiffIdle
    /\ \E notifications \in {[enabled |-> FALSE], [enabled |-> TRUE, webhook |-> "hook"]} :
          LET interval == [jobId |-> 1, period |-> 60]
              past == PastTarget
          IN  /\ monitoringJobs = (1 :> 1)
              /\ monObj = (1 :> [id |-> 1, isActive |-> TRUE, checkInterval |-> 60,
                                  selectors |-> <<"h1">>, notifications |-> notifications,
                                  previousContent |-> past.previousContent,
                                  changeHistory |-> 2, lastChecked |-> 0, lastChange |-> 0])
              /\ histArr = (2 :> past.changeHistory)
              /\ nextRef = 2
              /\ activeIntervals = (1 :> interval)
              /\ liveTimers = SetToBag({interval})
              /\ timerDue = (interval :> 60)
    /\ checks = EmptyBag
    /\ monCreated = 1
    /\ updates = 0
    /\ nchecks = 0
    /\ quiet = <<>>
    /\ touched = (1 :> 0)

NextHist ==
    \/ \E jobId \in TargetIds, patch \in Patches : MonitoringPUT(jobId, patch)
    \/ \E jobId \in TargetIds : MonitoringDELETE(jobId)
    \/ \E jobId \in TargetIds : MonitoringCheckPOST(jobId)
    \/ \E interval \in BagToSet(liveTimers) : TimerFire(interval)
    \/ \E c \in InFlight, error \in FetchErrors, outcome \in FailureOutcomes :
          FetchFailed(c, error, outcome)
    \/ \E c \in InFlight, page \in MonPages :
          FetchDone(c, page, DispatchEffects(monObj[c.job], ChangesOf(c, page)))
    \/ \E c \in InFlight, delivery \in Deliveries :
          NotificationsDone(c, delivery, EmailLog(monObj[c.job]))
    \/ AdvanceClockMon

SpecHist == InitHist /\ [][NextHist]_vars

Chronological(history) ==
    \A i, k \in DOMAIN history : i < k => history[i].timestamp <= history[k].timestamp

\* C14: in every reachable state the changeHistory of each stored target has at
\* most 50 entries, in chronological order.
C14_HistoryWithinCap ==
    \A jobId \in DOMAIN monitoringJobs :
        /\ Len(HistoryOf(StoredJob(jobId))) <= HistoryCap
        /\ Chronological(HistoryOf(StoredJob(jobId)))

\* ---------------- the monitor against a clock that counts minutes
\* What POST /api/monitoring passes on for the shortest interval it accepts.
TickInputs ==
    [isActive : {TRUE},
     checkInterval : {5},
     selectors : {<<"h1">>},
     notifications : {[enabled |-> FALSE]}]

\* Request bodies of PUT that switch a target off and on.
TickPatches == {[isActive |-> FALSE], [isActive |-> TRUE]}

MaxTickTime == 5

\* The runtime runs the callback of a live timer when its time has come.
TimerTick(interval) ==
    /\ interval \in DOMAIN timerDue
    /\ timerDue[interval] <= now
    /\ TimerFire(interval)

\* A minute passes; the callbacks that were due have run.
ClockTick ==
    /\ now < MaxTickTime
    /\ \A interval \in BagToSet(liveTimers) : now < timerDue[interval]
    /\ now' = now + 1
    /\ UNCHANGED <<qvars, dvars, mvars>>

NextTick ==
    \/ (monCreated < MaxTargets /\ \E input \in TickInputs : MonitoringPOST(input))
    \/ \E jobId \in TargetIds, patch \in TickPatches : MonitoringPUT(jobId, patch)
    \/ \E jobId \in TargetIds : MonitoringDELETE(jobId)
    \/ \E jobId \in TargetIds : MonitoringCheckPOST(jobId)
    \/ \E interval \in BagToSet(liveTimers) : TimerTick(interval)
    \/ \E c \in InFlight, error \in FetchErrors, outcome \in FailureOutcomes :
          FetchFailed(c, error, outcome)
    \/ \E c \in InFlight, page \in MonPages :
          FetchDone(c, page, DispatchEffects(monObj[c.job], ChangesOf(c, page)))
    \/ ClockTick

SpecTick == InitMon /\ [][NextTick]_vars

\* C17: a stored, active target that has seen no create, update, delete or
\* checkNow for a whole checkInterval has exactly one live timer, that timer's
\* period is the target's checkInterval, and its callback ran (or it was set) at
\* most one period ago and runs next at most one period from now: every window of
\* one interval holds exactly one tick.
C17_OneTickPerInterval ==
    \A jobId \in DOMAIN monitoringJobs \cap DOMAIN touched :
        StoredJob(jobId).isActive
          /\ now - touched[jobId] >= StoredJob(jobId).checkInterval =>
            /\ TimerCount(jobId) = 1
            /\ \A interval \in TimersOf(jobId) :
                  /\ interval.period = StoredJob(jobId).checkInterval
                  /\ now <= timerDue[interval]
                  /\ timerDue[interval] <= now + interval.period

====
